---- MODULE Spec2Model ----
(***************************************************************************)
(* Transport of RustCraft.  The server: the reactor of                     *)
(* Server/src/transport/connection.rs (accept_connections and              *)
(* check_connections), the sockets it reads and the event queues it        *)
(* writes.  The client: the socket of                                      *)
(* Client/lib/rc_networking/src/client/mod.rs, its reader and writer       *)
(* tasks and its two channels.  The codec and the length prefix of a       *)
(* frame, as functions of their inputs.                                    *)
(***************************************************************************)
EXTENDS Integers, Sequences, FiniteSets, TLC

\* ---------------------------------------------------------------- bounds
MaxConnections == 2    \* connection attempts made by peers in one run
MaxArrivals == 2       \* items peers put on the sockets in one run
MaxPollEvents == 2     \* readiness events returned by one poll
\* The budgets of the runs that follow one accepted connection through
\* several keepalive rounds: the pongs its peer sends, the ticks of the counter.
KeepalivePongs == 2
KeepaliveTime == 43
\* A peer is late once it has left a ping unanswered for more than this many
\* counter units.
PongDelay == 5

\* The frames the server sends to one client, the messages the client's
\* collaborators submit.
MaxFrames == 2
\* The runs in which another system flags sessions: the flags it sets, the
\* items peers put on the sockets.
MaxFlags == 1
FlaggedArrivals == 1
MaxSubmits == 2

\* ------------------------------------------------------- program constants
MAX_PING_TIMEOUT_SECONDS == 10
PING_TIME_SECONDS == 15
SERVER == 0


\* ------------------------------------------------------- wire protocol
\* The variants of the Protocol enum, in declaration order.
Variants == <<"Ping", "Pong", "PlayerJoin", "PlayerMove", "EntityMoved",
              "PlayerRotate", "EntityRotated", "PlayerLeave", "BlockUpdate",
              "ChatSent", "PartialChunkUpdate", "UserAuthenticate",
              "SpawnEntity", "Disconnect">>

\* Index of a variant in the enum, as the codec tags it (from 0).
VariantIndex(v) == (CHOOSE i \in 1..Len(Variants) : Variants[i] = v) - 1

KnownTags == { i - 1 : i \in 1..Len(Variants) }

\* Number of fixed-width fields of the variants whose layout the model
\* uses: Ping and Pong carry a code; PlayerMove and EntityMoved carry an id
\* and three coordinates.
Arity(tag) ==
    CASE tag = 0 -> 1
      [] tag = 1 -> 1
      [] tag = 3 -> 4
      [] tag = 4 -> 4

LaidOut == {0, 1, 3, 4}

Pong(code) == [variant |-> "Pong", fields |-> <<code>>]

\* The player-move message the client sends: PlayerMove::new(UserId(0), x, y, z).
PlayerMove(x, y, z) == [variant |-> "PlayerMove", fields |-> <<0, x, y, z>>]

MalformedPayload == [variant |-> "MalformedPayload", fields |-> <<>>]

\* encode: the variant tag followed by the fields, each in a fixed width.
encode(m) == <<VariantIndex(m.variant)>> \o m.fields

\* decode: fails on an empty payload, a tag out of range or a field layout
\* that does not fit the tag.
decode(bytes) ==
    IF Len(bytes) = 0 \/ bytes[1] \notin KnownTags
    THEN MalformedPayload
    ELSE IF bytes[1] \in LaidOut /\ Len(bytes) - 1 # Arity(bytes[1])
         THEN MalformedPayload
         ELSE [variant |-> Variants[bytes[1] + 1],
               fields |-> SubSeq(bytes, 2, Len(bytes))]

\* What a peer can put on its socket: a frame (a payload), or a condition of
\* the stream that read_packet reports.
Frame(payload) == [kind |-> "Frame", payload |-> payload]
Condition(k) == [kind |-> k, payload |-> <<>>]

\* Payloads that do not decode: a tag out of range, a truncated player-move.
GarbagePayloads == { <<Len(Variants)>>, <<VariantIndex("PlayerMove"), 0>> }

Conditions == {"Interrupted", "UnexpectedEof", "Disconnected", "ConnectionReset"}

\* "EndOfStream": the stream has ended inside a frame, and read_packet
\* reports UnexpectedEof on this and on every later call.
Results == Conditions \cup {"EndOfStream"}

\* ------------------------------------------------- the codec, byte by byte
\* An f32 is its three bit fields: sign (1 bit), exp (8 bits), mant (23 bits).
F32(sign, exp, mant) == [sign |-> sign, exp |-> exp, mant |-> mant]

IsNaN(f) == f.exp = 255 /\ f.mant # 0

IsZero(f) == f.exp = 0 /\ f.mant = 0

\* == on f32: a NaN equals nothing, the two zeros are equal, every other
\* value equals the value with the same bits.
f32_eq(a, b) ==
    IF IsNaN(a) \/ IsNaN(b) THEN FALSE
    ELSE IF IsZero(a) /\ IsZero(b) THEN TRUE
    ELSE a = b

\* The k low bytes of n, least significant first.
RECURSIVE to_le_bytes(_, _)
to_le_bytes(n, k) ==
    IF k = 0 THEN <<>> ELSE <<n % 256>> \o to_le_bytes(n \div 256, k - 1)

RECURSIVE from_le_bytes(_)
from_le_bytes(bytes) ==
    IF bytes = <<>> THEN 0 ELSE bytes[1] + 256 * from_le_bytes(Tail(bytes))

\* The four bytes of an f32, least significant first.
f32_to_le_bytes(f) ==
    << f.mant % 256,
       (f.mant \div 256) % 256,
       (f.mant \div 65536) + 128 * (f.exp % 2),
       (f.exp \div 2) + 128 * f.sign >>

f32_from_le_bytes(b) ==
    F32(b[4] \div 128,
        2 * (b[4] % 128) + (b[3] \div 128),
        b[1] + 256 * b[2] + 65536 * (b[3] % 128))

\* The fields of the variants whose layout the model uses, in declaration
\* order: Ping and Pong carry a code; PlayerMove carries a player and
\* EntityMoved an entity, each with x, y and z.
Layout(variant) ==
    CASE variant = "Ping" -> <<"u64">>
      [] variant = "Pong" -> <<"u64">>
      [] variant = "PlayerMove" -> <<"u64", "f32", "f32", "f32">>
      [] variant = "EntityMoved" -> <<"u64", "f32", "f32", "f32">>

FieldSize(type) == IF type = "u64" THEN 8 ELSE 4

RECURSIVE PayloadSize(_)
PayloadSize(layout) ==
    IF layout = <<>> THEN 0
    ELSE FieldSize(Head(layout)) + PayloadSize(Tail(layout))

Ping(code) == [variant |-> "Ping", fields |-> <<code>>]

EntityMoved(entity, x, y, z) ==
    [variant |-> "EntityMoved", fields |-> <<entity, x, y, z>>]

RECURSIVE serialize_fields(_, _)
serialize_fields(layout, fields) ==
    IF layout = <<>> THEN <<>>
    ELSE (IF Head(layout) = "u64" THEN to_le_bytes(Head(fields), 8)
          ELSE f32_to_le_bytes(Head(fields)))
         \o serialize_fields(Tail(layout), Tail(fields))

\* bincode::serialize of a Protocol value: the variant index in four bytes,
\* then the fields in declaration order, each in its fixed width.
serialize(m) ==
    to_le_bytes(VariantIndex(m.variant), 4)
        \o serialize_fields(Layout(m.variant), m.fields)

RECURSIVE deserialize_fields(_, _)
deserialize_fields(layout, bytes) ==
    IF layout = <<>> THEN <<>>
    ELSE LET n == FieldSize(Head(layout))
             field == SubSeq(bytes, 1, n)
         IN  <<IF Head(layout) = "u64" THEN from_le_bytes(field)
               ELSE f32_from_le_bytes(field)>>
             \o deserialize_fields(Tail(layout), SubSeq(bytes, n + 1, Len(bytes)))

\* bincode::deserialize::<Protocol>: fails when the bytes end before the
\* variant index or before the last field, or when the index names no
\* variant; bytes after the last field are left unread.
deserialize(bytes) ==
    IF Len(bytes) < 4 \/ bytes[1] \notin KnownTags
       \/ SubSeq(bytes, 2, 4) # <<0, 0, 0>>
    THEN MalformedPayload
    ELSE LET variant == Variants[bytes[1] + 1]
         IN  IF Len(bytes) - 4 < PayloadSize(Layout(variant))
             THEN MalformedPayload
             ELSE [variant |-> variant,
                   fields |-> deserialize_fields(Layout(variant),
                                                 SubSeq(bytes, 5, Len(bytes)))]

\* PartialEq comparing the bits of the fields.
PartialEqBits(a, b) == a = b

\* == on Protocol values: the same variant and fields that are pairwise ==.
PartialEq(a, b) ==
    /\ a.variant = b.variant
    /\ Len(a.fields) = Len(b.fields)
    /\ \A i \in 1..Len(a.fields) :
          IF Layout(a.variant)[i] = "f32" THEN f32_eq(a.fields[i], b.fields[i])
          ELSE a.fields[i] = b.fields[i]

\* The f32 values the messages are built from: 0.0, -0.0, 1.0, a negative
\* value whose four bytes differ, infinity and a NaN.
Floats == { F32(0, 0, 0), F32(1, 0, 0), F32(0, 127, 0), F32(1, 130, 1193046),
            F32(0, 255, 0), F32(0, 255, 4194304) }

EntityIds == {0, 258}

Messages ==
    { EntityMoved(e, x, y, z) : e \in EntityIds, x \in Floats, y \in Floats,
                                z \in Floats }
        \cup { Pong(code) : code \in EntityIds }


\* ------------------------------------------------------ the length prefix
\* A usize is its four 16-bit limbs, least significant first; a u32 is two.
usize(n) == <<n % 65536, n \div 65536, 0, 0>>

\* `len as u32`: the low 32 bits.
as_u32(len) == SubSeq(len, 1, 2)

\* `len as usize` of a u32.
as_usize(word) == word \o <<0, 0>>

\* write_u32 puts the four bytes of the word on the stream, most
\* significant first; read_u32 reads them back.
u32_to_be_bytes(word) ==
    <<word[2] \div 256, word[2] % 256, word[1] \div 256, word[1] % 256>>

u32_from_be_bytes(b) == <<256 * b[3] + b[4], 256 * b[1] + b[2]>>

\* The payload lengths a frame is built for: around 0, around 2^16, around
\* 2^32 and beyond.
Lengths ==
    { <<a, b, c, d>> : a \in {0, 1, 24, 65535}, b \in {0, 1, 65535},
                       c \in {0, 1}, d \in {0, 1} }

VARIABLES
    now,               \* the keepalive counter, the code of Ping::new()
    total_connections, \* TransportSystem.total_connections
    unauth_clients,    \* TransportSystem.unauth_clients: UserId -> session
    registered,        \* tokens registered with the poller
    backlog,           \* connection attempts pending on the listening socket
    wire,              \* token -> items pending on that connection's socket
    packet_events,     \* the ReceivePacket events written so far
    ping_requests,     \* check_connections' reader: events it has consumed
    connection_events, \* the ConnectionEvent events written so far
    poll_events,       \* the current poll: the tokens it saw registered and the
                       \* number of its events still to be handled
    pc,                \* reactor position: "idle", or "events" inside a poll iteration
    panic,             \* "none", or the place the process panicked
    budget,            \* what the peers and the counter may still do in this run
    peer,              \* history: per connection, what the peer saw and did
    hist,              \* history: accepts, removals, scheduling
    client,            \* the ClientSocket: its channels and its two tasks
    tcp,               \* the client's TCP stream, both directions
    codec,             \* a message taken through serialize and deserialize
    framing            \* a payload length taken through the prefix write

vars == <<now, total_connections, unauth_clients, registered, backlog, wire,
          packet_events, ping_requests, connection_events, poll_events, pc,
          panic, budget, peer, hist, client, tcp, codec, framing>>

\* What the server's steps leave alone.
elsewhere == <<client, tcp, codec, framing>>

server_vars == <<now, total_connections, unauth_clients, registered, backlog,
                 wire, packet_events, ping_requests, connection_events,
                 poll_events, pc, panic, budget, peer, hist>>

\* ------------------------------------------------------------- helpers
Range(s) == { s[i] : i \in 1..Len(s) }

\* f with key k set to v (k may be new)
Insert(f, k, v) == [x \in DOMAIN f \cup {k} |-> IF x = k THEN v ELSE f[x]]

Running == panic = "none"

\* No poll is being handled.
NoEvents == [tokens |-> {}, left |-> 0]

\* UnauthorizedUser::new(connection): the session of a new connection.
UnauthorizedUser == [last_ping |-> now, last_pong |-> 0, disconnected |-> FALSE]

\* What is known of a peer: the first and the last ping written to it, the
\* oldest ping it has not answered, whether it ever answered late (after more
\* than PongDelay units) or at all, the items it sent and how many of them
\* read_packet has consumed.
NewPeer == [first_ping |-> -1, last_ping |-> -1, awaiting |-> -1,
            late |-> FALSE, ponged |-> FALSE, arrived |-> <<>>, read |-> 0]

\* The parts of the state that a run does not exercise.
NoClient == [reader |-> "none", writer |-> "none"]
NoStream == [sent |-> <<>>, written |-> <<>>]
NoCodec == [pc |-> "none"]
NoFraming == [pc |-> "none"]

Init ==
    /\ now = 0
    /\ total_connections = 0
    /\ unauth_clients = <<>>
    /\ registered = {}
    /\ backlog = <<>>
    /\ wire = <<>>
    /\ packet_events = <<>>
    /\ ping_requests = 0
    /\ connection_events = <<>>
    /\ poll_events = NoEvents
    /\ pc = "idle"
    /\ panic = "none"
    /\ peer = <<>>
    /\ budget = [connections |-> MaxConnections, arrivals |-> MaxArrivals,
                 ticks |-> 0, flags |-> 0]
    /\ hist = [assigned |-> <<>>, removed |-> {}, checked |-> FALSE,
               skipped |-> FALSE]
    /\ client = NoClient
    /\ tcp = NoStream
    /\ codec = NoCodec
    /\ framing = NoFraming

\* ------------------------------------------------------------ environment
\* The keepalive counter advances by one.
Tick ==
    /\ Running
    /\ UNCHANGED elsewhere
    /\ pc = "idle"
    /\ budget.ticks > 0
    /\ budget' = [budget EXCEPT !.ticks = @ - 1]
    /\ now' = now + 1
    /\ peer' = [t \in DOMAIN peer |->
                 [peer[t] EXCEPT !.late = @ \/ (peer[t].awaiting # -1
                                    /\ now + 1 - peer[t].awaiting > PongDelay)]]
    /\ hist' = [hist EXCEPT !.checked = FALSE,
                            !.skipped = @ \/ ~hist.checked]
    /\ UNCHANGED <<total_connections, unauth_clients, registered, backlog, wire,
                   packet_events, ping_requests, connection_events,
                   poll_events, pc, panic>>

\* A peer connects; the accept of its connection will succeed ("Ok"), fail
\* once ("Err") or fail on this and on every later call ("Failing": an
\* error that stays, as when the process is out of file descriptors).
Connect(outcome) ==
    /\ Running
    /\ UNCHANGED elsewhere
    /\ pc = "idle"
    /\ budget.connections > 0
    /\ budget' = [budget EXCEPT !.connections = @ - 1]
    /\ backlog' = Append(backlog, outcome)
    /\ UNCHANGED <<now, total_connections, unauth_clients, registered, wire,
                   packet_events, ping_requests, connection_events,
                   poll_events, pc, panic, peer, hist>>

\* Another system of the server asks for the session of t to be dropped: it
\* sets the flag of the session in the shared TransportSystem.
RequestDisconnect(t) ==
    /\ Running
    /\ UNCHANGED elsewhere
    /\ pc = "idle"
    /\ budget.flags > 0
    /\ t \in DOMAIN unauth_clients
    /\ ~unauth_clients[t].disconnected
    /\ budget' = [budget EXCEPT !.flags = @ - 1]
    /\ unauth_clients' = [unauth_clients EXCEPT ![t].disconnected = TRUE]
    /\ UNCHANGED <<now, total_connections, registered, backlog, wire,
                   packet_events, ping_requests, connection_events,
                   poll_events, pc, panic, peer, hist>>

\* The stream of connection t has ended: nothing arrives after it.
Ended(t) == \E i \in 1..Len(peer[t].arrived) :
                peer[t].arrived[i].kind \in {"Disconnected", "ConnectionReset",
                                             "EndOfStream"}

\* An item arrives on the socket of connection t.
Arrive(t, item) ==
    /\ Running
    /\ UNCHANGED elsewhere
    /\ pc = "idle"
    /\ t \in DOMAIN wire
    /\ ~Ended(t)
    /\ budget.arrivals > 0
    /\ budget' = [budget EXCEPT !.arrivals = @ - 1]
    /\ wire' = [wire EXCEPT ![t] = Append(@, item)]
    /\ UNCHANGED <<now, total_connections, unauth_clients, registered, backlog,
                   packet_events, ping_requests, connection_events,
                   poll_events, pc, panic, hist>>

\* The peer of t sends a pong carrying the code of the last ping it got.
PeerPong(t) ==
    /\ t \in DOMAIN wire
    /\ Arrive(t, Frame(encode(Pong(IF peer[t].last_ping = -1 THEN 0
                                   ELSE peer[t].last_ping))))
    /\ peer' = [peer EXCEPT ![t].arrived = Append(@,
                                Frame(encode(Pong(IF peer[t].last_ping = -1
                                                  THEN 0 ELSE peer[t].last_ping)))),
                            ![t].awaiting = -1,
                            ![t].ponged = TRUE]

\* The peer of t sends a pong carrying a code of its own choosing.
PeerPongCode(t, code) ==
    /\ t \in DOMAIN wire
    /\ Arrive(t, Frame(encode(Pong(code))))
    /\ peer' = [peer EXCEPT ![t].arrived = Append(@, Frame(encode(Pong(code)))),
                            ![t].awaiting = -1,
                            ![t].ponged = TRUE]

\* The peer of t sends a player-move, as network_location_sync builds it.
PeerMove(t) ==
    /\ t \in DOMAIN wire
    /\ \E c \in {<<1, 2, 3>>, <<3, 2, 1>>} :
        /\ Arrive(t, Frame(encode(PlayerMove(c[1], c[2], c[3]))))
        /\ peer' = [peer EXCEPT ![t].arrived = Append(@,
                        Frame(encode(PlayerMove(c[1], c[2], c[3]))))]

\* The peer of t sends a frame whose payload does not decode.
PeerGarbage(t) ==
    /\ t \in DOMAIN wire
    /\ \E g \in GarbagePayloads :
        /\ Arrive(t, Frame(g))
        /\ peer' = [peer EXCEPT ![t].arrived = Append(@, Frame(g))]

\* The stream of t gets into a condition that read_packet reports.
PeerCondition(t, k) ==
    /\ t \in DOMAIN wire
    /\ Arrive(t, Condition(k))
    /\ peer' = [peer EXCEPT ![t].arrived = Append(@, Condition(k))]

\* ---------------------------------------------------------------- reactor
\* The readiness events a poll can return: the listening socket's, and for
\* every token registered when it polled a readable or a not readable
\* (writable) one.  A poll returns any number of them, up to MaxPollEvents,
\* in any order and with repetitions; the reactor handles them one by one.
PollEvents(tokens) ==
    { [token |-> SERVER, readable |-> TRUE] } \cup
    { [token |-> t, readable |-> r] : t \in tokens, r \in BOOLEAN }

\* RemoveClients without the deregistration.
RemoveClientsKeepRegistered(gone) ==
    /\ unauth_clients' = [t \in DOMAIN unauth_clients \ gone |-> unauth_clients[t]]
    /\ registered' = registered
    /\ wire' = [t \in DOMAIN wire \ gone |-> wire[t]]

\* Remove the clients of the set gone from the table and from the poller;
\* their sockets are dropped with them.  Registering and deregistering are
\* taken to succeed: a failure is an unwrap panic that ends the process.
RemoveClients(gone) ==
    /\ unauth_clients' = [t \in DOMAIN unauth_clients \ gone |-> unauth_clients[t]]
    /\ registered' = registered \ gone
    /\ wire' = [t \in DOMAIN wire \ gone |-> wire[t]]

\* disconnected_clients collecting nothing.
no_disconnected_clients == {}

\* The tokens of the sessions flagged disconnected.
disconnected_clients ==
    { t \in DOMAIN unauth_clients : unauth_clients[t].disconnected }

\* accept_connections, up to the poll: the sessions flagged disconnected are
\* removed and deregistered, then the poller is asked for events; it has
\* events of the sockets that are then registered.
accept_connections ==
    /\ Running
    /\ UNCHANGED elsewhere
    /\ pc = "idle"
    /\ RemoveClients(disconnected_clients)
    /\ hist' = [hist EXCEPT !.removed = @ \cup disconnected_clients]
    /\ \E n \in 0..MaxPollEvents :
         /\ poll_events' = IF n = 0 THEN NoEvents
                           ELSE [tokens |-> registered', left |-> n]
         /\ pc' = IF n = 0 THEN "idle" ELSE "events"
    /\ UNCHANGED <<now, total_connections, backlog, packet_events,
                   ping_requests, connection_events, panic, budget, peer>>

\* The reactor moves to the next event of the iteration, or ends it.
NextEvent ==
    /\ poll_events' = IF poll_events.left = 1 THEN NoEvents
                      ELSE [poll_events EXCEPT !.left = @ - 1]
    /\ pc' = IF poll_events.left = 1 THEN "idle" ELSE "events"

\* ConnectionEvent::new(uid): the lifecycle event of an accepted connection.
ConnectionEvent(uid) == [kind |-> "established", user |-> uid]

\* Accept with the user id taken from the size of the session table.
AcceptByTableSize(sys) ==
    LET total == sys.total_connections + 1
        uid == Cardinality(DOMAIN sys.unauth_clients) + 1
    IN  [total_connections |-> total,
         registered |-> sys.registered \cup {uid},
         unauth_clients |-> Insert(sys.unauth_clients, uid, UnauthorizedUser),
         connection_events |-> Append(sys.connection_events, ConnectionEvent(uid)),
         assigned |-> Append(sys.assigned, uid)]

\* Accept with the token and the user id taken from the counter before it
\* is incremented: the numbering starts at the listening socket's token.
AcceptFromServerToken(sys) ==
    LET uid == sys.total_connections
        total == sys.total_connections + 1
    IN  [total_connections |-> total,
         registered |-> sys.registered \cup {uid},
         unauth_clients |-> Insert(sys.unauth_clients, uid, UnauthorizedUser),
         connection_events |-> Append(sys.connection_events, ConnectionEvent(uid)),
         assigned |-> Append(sys.assigned, uid)]

\* Accept with the user id read before the counter is incremented.
AcceptBeforeIncrement(sys) ==
    LET total == sys.total_connections + 1
        uid == sys.total_connections
    IN  [total_connections |-> total,
         registered |-> sys.registered \cup {total},
         unauth_clients |-> Insert(sys.unauth_clients, uid, UnauthorizedUser),
         connection_events |-> Append(sys.connection_events, ConnectionEvent(uid)),
         assigned |-> Append(sys.assigned, uid)]

\* One successful accept: the counter is incremented and names the new
\* user, whose socket is registered and whose session is stored; a
\* connection event is sent.
Accept(sys) ==
    LET total == sys.total_connections + 1
        uid == total
    IN  [total_connections |-> total,
         registered |-> sys.registered \cup {total},
         unauth_clients |-> Insert(sys.unauth_clients, uid, UnauthorizedUser),
         connection_events |-> Append(sys.connection_events, ConnectionEvent(uid)),
         assigned |-> Append(sys.assigned, uid)]

\* AcceptLoop incrementing the connection counter on a failed accept too.
RECURSIVE AcceptLoopCountsFailures(_, _)
AcceptLoopCountsFailures(pending, sys) ==
    IF pending = <<>> THEN sys
    ELSE IF Head(pending) = "Ok"
         THEN AcceptLoopCountsFailures(Tail(pending), Accept(sys))
         ELSE IF Head(pending) = "Failing" THEN sys
         ELSE AcceptLoopCountsFailures(Tail(pending),
                  [sys EXCEPT !.total_connections = @ + 1])

\* The accept loop: every pending connection is accepted until accept would
\* block; a failed accept is logged and the loop goes on (`continue`), so
\* on an accept that keeps failing the loop does not get further.
RECURSIVE AcceptLoop(_, _)
AcceptLoop(pending, sys) ==
    IF pending = <<>> THEN sys
    ELSE IF Head(pending) = "Ok"
         THEN AcceptLoop(Tail(pending), Accept(sys))
         ELSE IF Head(pending) = "Failing" THEN sys
         ELSE AcceptLoop(Tail(pending), sys)

\* What the accept loop leaves pending: nothing, or the connections from
\* the first whose accept keeps failing.
RECURSIVE Unaccepted(_)
Unaccepted(pending) ==
    IF pending = <<>> \/ Head(pending) = "Failing" THEN pending
    ELSE Unaccepted(Tail(pending))

\* The event of the listening socket.
HandleServerEvent ==
    /\ Running
    /\ UNCHANGED elsewhere
    /\ pc = "events"
    /\ LET sys == AcceptLoop(backlog,
                    [total_connections |-> total_connections,
                     registered |-> registered,
                     unauth_clients |-> unauth_clients,
                     connection_events |-> connection_events,
                     assigned |-> hist.assigned])
           new == sys.registered \ registered
       IN  /\ total_connections' = sys.total_connections
           /\ registered' = sys.registered
           /\ unauth_clients' = sys.unauth_clients
           /\ connection_events' = sys.connection_events
           /\ hist' = [hist EXCEPT !.assigned = sys.assigned]
           /\ wire' = [t \in DOMAIN wire \cup new |->
                         IF t \in DOMAIN wire THEN wire[t] ELSE <<>>]
           /\ peer' = [t \in DOMAIN peer \cup new |->
                         IF t \in new THEN NewPeer ELSE peer[t]]
    /\ backlog' = Unaccepted(backlog)
    /\ IF Unaccepted(backlog) = <<>>
       THEN NextEvent
       ELSE \* the loop spins: the system never returns
            pc' = "hung" /\ UNCHANGED poll_events
    /\ UNCHANGED <<now, packet_events, ping_requests, panic, budget>>

\* read_packet on a socket whose pending items are w: the result, the packet
\* of an Ok result, and what stays pending.
read_packet(w) ==
    IF w = <<>>
    THEN [result |-> "WouldBlock", packet |-> MalformedPayload, rest |-> w]
    ELSE IF Head(w).kind = "Frame"
         THEN IF decode(Head(w).payload) = MalformedPayload
              THEN [result |-> "Bincode", packet |-> MalformedPayload, rest |-> Tail(w)]
              ELSE [result |-> "Ok", packet |-> decode(Head(w).payload), rest |-> Tail(w)]
         ELSE IF Head(w).kind = "EndOfStream"
         THEN [result |-> "UnexpectedEof", packet |-> MalformedPayload, rest |-> w]
         ELSE [result |-> Head(w).kind, packet |-> MalformedPayload, rest |-> Tail(w)]

\* SendEvent putting the envelope at the head of the queue.
SendEventFirst(events, packet, id) == <<[packet |-> packet, user |-> id]>> \o events

\* An envelope is sent to the ReceivePacket event writer.
SendEvent(events, packet, id) == Append(events, [packet |-> packet, user |-> id])

\* ReadLoop taking the envelopes of the user back when its drain ends in a
\* disconnection.
RECURSIVE ReadLoopDropsEnvelopes(_, _, _)
ReadLoopDropsEnvelopes(w, events, id) ==
    LET r == read_packet(w)
        others == SelectSeq(events, LAMBDA e : e.user # id)
    IN  CASE r.result = "Ok" ->
                 ReadLoopDropsEnvelopes(r.rest, SendEvent(events, r.packet, id), id)
          [] r.result = "WouldBlock" ->
                 [events |-> events, rest |-> r.rest, end |-> "WouldBlock"]
          [] r.result = "Interrupted" -> ReadLoopDropsEnvelopes(r.rest, events, id)
          [] r.result = "UnexpectedEof" ->
                 IF r.rest = w
                 THEN [events |-> events, rest |-> r.rest, end |-> "Hang"]
                 ELSE ReadLoopDropsEnvelopes(r.rest, events, id)
          [] r.result = "Bincode" ->
                 [events |-> others, rest |-> r.rest, end |-> "Disconnect"]
          [] r.result = "Disconnected" ->
                 [events |-> others, rest |-> r.rest, end |-> "Disconnect"]
          [] OTHER -> [events |-> events, rest |-> r.rest, end |-> "Panic"]

\* ReadLoop with the arm of UnexpectedEof setting client_disconnect and
\* breaking, as its commented-out lines would.
RECURSIVE ReadLoopEofDisconnects(_, _, _)
ReadLoopEofDisconnects(w, events, id) ==
    LET r == read_packet(w)
    IN  CASE r.result = "Ok" ->
                 ReadLoopEofDisconnects(r.rest, SendEvent(events, r.packet, id), id)
          [] r.result = "WouldBlock" ->
                 [events |-> events, rest |-> r.rest, end |-> "WouldBlock"]
          [] r.result = "Interrupted" -> ReadLoopEofDisconnects(r.rest, events, id)
          [] r.result = "UnexpectedEof" ->
                 [events |-> events, rest |-> r.rest, end |-> "Disconnect"]
          [] r.result = "Bincode" ->
                 [events |-> events, rest |-> r.rest, end |-> "Disconnect"]
          [] r.result = "Disconnected" ->
                 [events |-> events, rest |-> r.rest, end |-> "Disconnect"]
          [] OTHER -> [events |-> events, rest |-> r.rest, end |-> "Panic"]

\* ReadLoop with an interrupted read taken for a disconnection.
RECURSIVE ReadLoopInterruptedDisconnects(_, _, _)
ReadLoopInterruptedDisconnects(w, events, id) ==
    LET r == read_packet(w)
    IN  CASE r.result = "Ok" ->
                 ReadLoopInterruptedDisconnects(r.rest,
                                                SendEvent(events, r.packet, id), id)
          [] r.result = "WouldBlock" ->
                 [events |-> events, rest |-> r.rest, end |-> "WouldBlock"]
          [] r.result = "Interrupted" ->
                 [events |-> events, rest |-> r.rest, end |-> "Disconnect"]
          [] r.result = "UnexpectedEof" ->
                 IF r.rest = w
                 THEN [events |-> events, rest |-> r.rest, end |-> "Hang"]
                 ELSE ReadLoopInterruptedDisconnects(r.rest, events, id)
          [] r.result = "Bincode" ->
                 [events |-> events, rest |-> r.rest, end |-> "Disconnect"]
          [] r.result = "Disconnected" ->
                 [events |-> events, rest |-> r.rest, end |-> "Disconnect"]
          [] OTHER -> [events |-> events, rest |-> r.rest, end |-> "Panic"]

\* ReadLoop going on to the next packet after a payload that does not decode.
RECURSIVE ReadLoopPastBincode(_, _, _)
ReadLoopPastBincode(w, events, id) ==
    LET r == read_packet(w)
    IN  CASE r.result = "Ok" ->
                 ReadLoopPastBincode(r.rest, SendEvent(events, r.packet, id), id)
          [] r.result = "WouldBlock" ->
                 [events |-> events, rest |-> r.rest, end |-> "WouldBlock"]
          [] r.result = "Interrupted" -> ReadLoopPastBincode(r.rest, events, id)
          [] r.result = "UnexpectedEof" ->
                 IF r.rest = w
                 THEN [events |-> events, rest |-> r.rest, end |-> "Hang"]
                 ELSE ReadLoopPastBincode(r.rest, events, id)
          [] r.result = "Bincode" -> ReadLoopPastBincode(r.rest, events, id)
          [] r.result = "Disconnected" ->
                 [events |-> events, rest |-> r.rest, end |-> "Disconnect"]
          [] OTHER -> [events |-> events, rest |-> r.rest, end |-> "Panic"]

\* The drain loop of one readable event of user id: packets are read and
\* sent as events until read_packet would block or fails.  Yields the
\* events, what stays pending on the socket and how the loop ended:
\* "WouldBlock", "Disconnect" (client_disconnect set), "Panic", or "Hang":
\* the arm of UnexpectedEof neither breaks nor sets client_disconnect, so on
\* a stream that keeps reporting it the loop does not end.
RECURSIVE ReadLoop(_, _, _)
ReadLoop(w, events, id) ==
    LET r == read_packet(w)
    IN  CASE r.result = "Ok" -> ReadLoop(r.rest, SendEvent(events, r.packet, id), id)
          [] r.result = "WouldBlock" ->
                 [events |-> events, rest |-> r.rest, end |-> "WouldBlock"]
          [] r.result = "Interrupted" -> ReadLoop(r.rest, events, id)
          [] r.result = "UnexpectedEof" ->
                 IF r.rest = w
                 THEN [events |-> events, rest |-> r.rest, end |-> "Hang"]
                 ELSE ReadLoop(r.rest, events, id)
          [] r.result = "Bincode" ->
                 [events |-> events, rest |-> r.rest, end |-> "Disconnect"]
          [] r.result = "Disconnected" ->
                 [events |-> events, rest |-> r.rest, end |-> "Disconnect"]
          [] OTHER -> [events |-> events, rest |-> r.rest, end |-> "Panic"]

\* DisconnectedClient naming the user with the smallest id of the table.
FirstClient(event) ==
    CHOOSE t \in DOMAIN unauth_clients : \A u \in DOMAIN unauth_clients : t <= u

\* DisconnectedClient naming the newest user, UserId(total_connections).
NewestClient(event) == total_connections

\* The user removed after client_disconnect: UserId(token.0 as u64).
DisconnectedClient(event) == event.token

\* The event of a connection's token: its user is looked up and, when the
\* event is readable, its socket drained; a user whose drain ended in
\* client_disconnect is removed from the table and deregistered.
TokenEvent(event) ==
    LET id == event.token
        d == ReadLoop(wire[id], packet_events, id)
    IN  IF id \notin DOMAIN unauth_clients
        THEN \* get_mut(&id).unwrap() on a user that is not in the table
             /\ panic' = "lookup"
             /\ UNCHANGED <<unauth_clients, registered, wire, packet_events,
                            peer, hist, poll_events, pc>>
        ELSE IF ~event.readable
        THEN /\ NextEvent
             /\ UNCHANGED <<unauth_clients, registered, wire, packet_events,
                            peer, hist, panic>>
        ELSE /\ packet_events' = d.events
             /\ peer' = [peer EXCEPT ![id].read = @ + Len(wire[id]) - Len(d.rest)]
             /\ CASE d.end = "Panic" ->
                       \* panic!() on an error of no other arm
                       /\ panic' = "read"
                       /\ wire' = [wire EXCEPT ![id] = d.rest]
                       /\ UNCHANGED <<unauth_clients, registered, hist,
                                      poll_events, pc>>
                  [] d.end = "Hang" ->
                       \* the loop spins: the system never returns
                       /\ pc' = "hung"
                       /\ wire' = [wire EXCEPT ![id] = d.rest]
                       /\ UNCHANGED <<unauth_clients, registered, hist,
                                      poll_events, panic>>
                  [] d.end = "Disconnect" ->
                       /\ RemoveClients({DisconnectedClient(event)})
                       /\ hist' = [hist EXCEPT !.removed =
                                       @ \cup {DisconnectedClient(event)}]
                       /\ NextEvent
                       /\ UNCHANGED panic
                  [] OTHER ->
                       /\ wire' = [wire EXCEPT ![id] = d.rest]
                       /\ NextEvent
                       /\ UNCHANGED <<unauth_clients, registered, hist, panic>>

HandleTokenEvent ==
    /\ Running
    /\ UNCHANGED elsewhere
    /\ pc = "events"
    /\ \E event \in PollEvents(poll_events.tokens) :
          event.token # SERVER /\ TokenEvent(event)
    /\ UNCHANGED <<now, total_connections, backlog, ping_requests,
                   connection_events, budget>>

\* PingDue once the interval has passed, not only after it.
PingDueAtInterval(stream) == now - stream.last_ping >= PING_TIME_SECONDS

\* A ping is due: none has been sent in the last PING_TIME_SECONDS.
PingDue(stream) == now - stream.last_ping > PING_TIME_SECONDS

\* TimedOut with the ping interval left out of the allowance.
TimedOutEarly(stream) == now - stream.last_ping > MAX_PING_TIMEOUT_SECONDS

\* The timeout test of check_connections on a session.
TimedOut(stream) ==
    now - stream.last_ping > PING_TIME_SECONDS + MAX_PING_TIMEOUT_SECONDS

\* CheckConnection assigning the result of the timeout test to the flag.
CheckConnectionAssignsFlag(stream) ==
    LET pinged == IF PingDue(stream) THEN [stream EXCEPT !.last_ping = now]
                  ELSE stream
    IN  [pinged EXCEPT !.disconnected = TimedOut(pinged)]

\* The body of the loop of check_connections over the sessions, with a ping
\* write that succeeds: a due ping is written and recorded as last_ping,
\* then the session is flagged when the timeout test says so.
CheckConnection(stream) ==
    LET pinged == IF PingDue(stream) THEN [stream EXCEPT !.last_ping = now]
                  ELSE stream
    IN  IF TimedOut(pinged) THEN [pinged EXCEPT !.disconnected = TRUE]
        ELSE pinged

\* StorePong storing the pong in every session of the table.
StorePongAll(clients, user, pong) ==
    [t \in DOMAIN clients |-> [clients[t] EXCEPT !.last_pong = pong]]

\* get_mut(user).unwrap().last_pong = req.clone() on a user in the table.
StorePong(clients, user, pong) == [clients EXCEPT ![user].last_pong = pong]

\* The loop over the network events: every pong is stored as last_pong of
\* its user; get_mut(user).unwrap() fails on a user that is not in the table.
RECURSIVE PongLoop(_, _)
PongLoop(reqs, clients) ==
    IF reqs = <<>> THEN [clients |-> clients, failed |-> FALSE]
    ELSE IF Head(reqs).packet.variant = "Pong"
         THEN IF Head(reqs).user \in DOMAIN clients
              THEN PongLoop(Tail(reqs),
                     StorePong(clients, Head(reqs).user,
                               Head(reqs).packet.fields[1]))
              ELSE [clients |-> clients, failed |-> TRUE]
         ELSE PongLoop(Tail(reqs), clients)

\* The peer of t sees a ping written at the current counter value.
PingSeen(p) == [p EXCEPT !.first_ping = IF @ = -1 THEN now ELSE @,
                         !.last_ping = now,
                         !.awaiting = IF @ = -1 THEN now ELSE @]

\* check_connections: pings are sent and timeouts flagged, then the pongs
\* among the events not yet read are recorded.
check_connections ==
    /\ Running
    /\ UNCHANGED elsewhere
    /\ pc = "idle"
    /\ LET due == { t \in DOMAIN unauth_clients : PingDue(unauth_clients[t]) }
           checked == [t \in DOMAIN unauth_clients |->
                          CheckConnection(unauth_clients[t])]
           p == PongLoop(SubSeq(packet_events, ping_requests + 1,
                                Len(packet_events)), checked)
       IN  \E write_fails \in IF due = {} THEN {FALSE} ELSE BOOLEAN :
             IF write_fails
             THEN \* write_packet(..).unwrap() on a failed write
                  /\ panic' = "ping_write"
                  /\ UNCHANGED <<unauth_clients, ping_requests, peer, hist>>
             ELSE /\ peer' = [t \in DOMAIN peer |->
                               IF t \in due THEN PingSeen(peer[t]) ELSE peer[t]]
                  /\ ping_requests' = Len(packet_events)
                  /\ hist' = [hist EXCEPT !.checked = TRUE]
                  /\ IF p.failed
                     THEN /\ panic' = "pong"
                          /\ unauth_clients' = checked
                     ELSE /\ unauth_clients' = p.clients
                          /\ UNCHANGED panic
    /\ UNCHANGED <<now, total_connections, registered, backlog, wire,
                   packet_events, connection_events, poll_events, pc, budget>>

\* ------------------------------------------------------------ specification
Tokens == 1..MaxConnections

Next ==
    \/ \E outcome \in {"Ok", "Err"} : Connect(outcome)
    \/ \E t \in Tokens : PeerPong(t)
    \/ \E t \in Tokens : PeerMove(t)
    \/ \E t \in Tokens : PeerGarbage(t)
    \/ \E t \in Tokens, k \in Conditions : PeerCondition(t, k)
    \/ accept_connections
    \/ HandleServerEvent
    \/ HandleTokenEvent
    \/ check_connections

Spec == Init /\ [][Next]_vars

\* The runs in which, besides, another system may flag a session.
InitFlagged ==
    /\ now = 0
    /\ total_connections = 0
    /\ unauth_clients = <<>>
    /\ registered = {}
    /\ backlog = <<>>
    /\ wire = <<>>
    /\ packet_events = <<>>
    /\ ping_requests = 0
    /\ connection_events = <<>>
    /\ poll_events = NoEvents
    /\ pc = "idle"
    /\ panic = "none"
    /\ peer = <<>>
    /\ budget = [connections |-> MaxConnections, arrivals |-> FlaggedArrivals,
                 ticks |-> 0, flags |-> MaxFlags]
    /\ hist = [assigned |-> <<>>, removed |-> {}, checked |-> FALSE,
               skipped |-> FALSE]
    /\ client = NoClient
    /\ tcp = NoStream
    /\ codec = NoCodec
    /\ framing = NoFraming

NextFlagged ==
    \/ \E outcome \in {"Ok", "Err"} : Connect(outcome)
    \/ \E t \in Tokens : RequestDisconnect(t)
    \/ \E t \in Tokens : PeerPong(t)
    \/ \E t \in Tokens : PeerMove(t)
    \/ \E t \in Tokens : PeerGarbage(t)
    \/ \E t \in Tokens, k \in Conditions : PeerCondition(t, k)
    \/ accept_connections
    \/ HandleServerEvent
    \/ HandleTokenEvent
    \/ check_connections

SpecFlagged == InitFlagged /\ [][NextFlagged]_vars

\* The runs in which, besides, an accept or a stream may keep giving the
\* same result.
NextResults ==
    \/ \E outcome \in {"Ok", "Err", "Failing"} : Connect(outcome)
    \/ \E t \in Tokens : PeerPong(t)
    \/ \E t \in Tokens : PeerMove(t)
    \/ \E t \in Tokens : PeerGarbage(t)
    \/ \E t \in Tokens, k \in Results : PeerCondition(t, k)
    \/ accept_connections
    \/ HandleServerEvent
    \/ HandleTokenEvent
    \/ check_connections

SpecResults == Init /\ [][NextResults]_vars

\* The runs that follow one connection, accepted at counter value 0 as the
\* first of the process, through several keepalive rounds: its peer sends
\* nothing but pongs.
InitKeepalive ==
    /\ now = 0
    /\ total_connections = 1
    /\ unauth_clients = [t \in {1} |-> UnauthorizedUser]
    /\ registered = {1}
    /\ backlog = <<>>
    /\ wire = [t \in {1} |-> <<>>]
    /\ packet_events = <<>>
    /\ ping_requests = 0
    /\ connection_events = <<[kind |-> "established", user |-> 1]>>
    /\ poll_events = NoEvents
    /\ pc = "idle"
    /\ panic = "none"
    /\ peer = [t \in {1} |-> NewPeer]
    /\ budget = [connections |-> 0, arrivals |-> KeepalivePongs,
                 ticks |-> KeepaliveTime, flags |-> 0]
    /\ hist = [assigned |-> <<1>>, removed |-> {}, checked |-> FALSE,
               skipped |-> FALSE]
    /\ client = NoClient
    /\ tcp = NoStream
    /\ codec = NoCodec
    /\ framing = NoFraming

NextKeepalive ==
    \/ Tick
    \/ \E t \in Tokens : PeerPong(t)
    \/ accept_connections
    \/ HandleServerEvent
    \/ HandleTokenEvent
    \/ check_connections

SpecKeepalive == InitKeepalive /\ [][NextKeepalive]_vars

\* ------------------------------------------------------------ the codec
\* No server runs: nothing connects, nothing arrives, the counter stands.
NoServer ==
    /\ now = 0
    /\ total_connections = 0
    /\ unauth_clients = <<>>
    /\ registered = {}
    /\ backlog = <<>>
    /\ wire = <<>>
    /\ packet_events = <<>>
    /\ ping_requests = 0
    /\ connection_events = <<>>
    /\ poll_events = NoEvents
    /\ pc = "idle"
    /\ panic = "none"
    /\ peer = <<>>
    /\ budget = [connections |-> 0, arrivals |-> 0, ticks |-> 0, flags |-> 0]
    /\ hist = [assigned |-> <<>>, removed |-> {}, checked |-> FALSE,
               skipped |-> FALSE]

\* A message value is serialized, and the bytes are deserialized.
InitCodec ==
    /\ NoServer
    /\ client = NoClient
    /\ tcp = NoStream
    /\ framing = NoFraming
    /\ codec \in { [pc |-> "value", m |-> m, bytes |-> <<>>,
                    decoded |-> MalformedPayload] : m \in Messages }

Serialize ==
    /\ codec.pc = "value"
    /\ codec' = [codec EXCEPT !.pc = "bytes", !.bytes = serialize(codec.m)]
    /\ UNCHANGED <<server_vars, client, tcp, framing>>

Deserialize ==
    /\ codec.pc = "bytes"
    /\ codec' = [codec EXCEPT !.pc = "decoded",
                              !.decoded = deserialize(codec.bytes)]
    /\ UNCHANGED <<server_vars, client, tcp, framing>>

NextCodec ==
    \/ Serialize
    \/ Deserialize

SpecCodec == InitCodec /\ [][NextCodec]_vars

\* ------------------------------------------------------ the length prefix
\* The writer puts the prefix of a payload of some length on the stream, and
\* the other side reads it.
InitFraming ==
    /\ NoServer
    /\ client = NoClient
    /\ tcp = NoStream
    /\ codec = NoCodec
    /\ framing \in { [pc |-> "payload", len |-> len, written |-> <<>>,
                      declared |-> <<0, 0>>] : len \in Lengths }

WritePrefix ==
    /\ framing.pc = "payload"
    /\ framing' = [framing EXCEPT
                      !.pc = "written",
                      !.written = u32_to_be_bytes(as_u32(framing.len))]
    /\ UNCHANGED <<server_vars, client, tcp, codec>>

ReadPrefix ==
    /\ framing.pc = "written"
    /\ framing' = [framing EXCEPT
                      !.pc = "read",
                      !.declared = u32_from_be_bytes(framing.written)]
    /\ UNCHANGED <<server_vars, client, tcp, codec>>

NextFraming ==
    \/ WritePrefix
    \/ ReadPrefix

SpecFraming == InitFraming /\ [][NextFraming]_vars

\* ------------------------------------------------------ the client socket
\* A frame on the wire: write_u32 of the payload's length, then the payload.
FrameBytes(m) ==
    LET packet == serialize(m)
    IN  u32_to_be_bytes(as_u32(usize(Len(packet)))) \o packet

RECURSIVE Concat(_)
Concat(seqs) == IF seqs = <<>> THEN <<>> ELSE Head(seqs) \o Concat(Tail(seqs))

StreamOf(frames) == Concat([i \in 1..Len(frames) |-> FrameBytes(frames[i])])

\* All sequences over S of length at most n.
SeqsUpTo(S, n) == UNION { [1..k -> S] : k \in 0..n }

\* What the server sends to the client: a ping, an entity-move.
ServerMessages ==
    { Ping(1), EntityMoved(258, F32(0, 127, 0), F32(1, 0, 0), F32(0, 255, 0)) }

\* The byte streams a server sends: up to MaxFrames whole frames, or frames
\* of which the last is cut inside its prefix (2 bytes of it sent) or
\* inside its payload (7 bytes of it sent).
Whole(frames) ==
    [frames |-> frames, sent |-> StreamOf(frames), truncated |-> FALSE]

Cut(frames, keep) ==
    [frames |-> frames,
     sent |-> SubSeq(StreamOf(frames), 1,
                     Len(StreamOf(SubSeq(frames, 1, Len(frames) - 1))) + keep),
     truncated |-> TRUE]

Streams ==
    { Whole(frames) : frames \in SeqsUpTo(ServerMessages, MaxFrames) }
        \cup { Cut(frames, keep) :
                 frames \in SeqsUpTo(ServerMessages, MaxFrames) \ {<<>>},
                 keep \in {2, 7} }

\* read_u32().await on the bytes the socket holds: the word once four bytes
\* are there, an error when the stream ends before that.
read_u32_short(buf, eof) ==
    IF Len(buf) >= 4
    THEN [result |-> "Ok", len |-> u32_from_be_bytes(SubSeq(buf, 1, 4)),
          taken |-> 4]
    ELSE IF Len(buf) > 0 \/ eof
         THEN [result |-> "Err", len |-> <<0, 0>>, taken |-> Len(buf)]
         ELSE [result |-> "Pending", len |-> <<0, 0>>, taken |-> 0]

read_u32(buf, eof) ==
    IF Len(buf) >= 4
    THEN [result |-> "Ok", len |-> u32_from_be_bytes(SubSeq(buf, 1, 4)),
          taken |-> 4]
    ELSE IF eof
         THEN [result |-> "Err", len |-> <<0, 0>>, taken |-> Len(buf)]
         ELSE [result |-> "Pending", len |-> <<0, 0>>, taken |-> 0]

\* Vec::with_capacity(len): a vector of length 0.
with_capacity(len) == <<>>

\* `let _ = read_tcp.read_exact(&mut data)`: the future is dropped without
\* being awaited, so nothing is read: the data and the stream are as before.
read_exact(buf, data) == [data |-> data, taken |-> 0]

\* One iteration of the reader's loop on the bytes the socket holds.
reader_iteration(buf, eof) ==
    LET prefix == read_u32(buf, eof)
        read == read_exact(SubSeq(buf, prefix.taken + 1, Len(buf)),
                           with_capacity(prefix.len))
        packet == deserialize(read.data)
    IN  IF prefix.result # "Ok"
        THEN [result |-> prefix.result, taken |-> prefix.taken,
              len |-> prefix.len, data |-> <<>>, packet |-> MalformedPayload]
        ELSE [result |-> IF packet = MalformedPayload THEN "Panic" ELSE "Ok",
              taken |-> prefix.taken + read.taken,
              len |-> prefix.len, data |-> read.data, packet |-> packet]

\* ReceivePacket(packet, UserId(0))
ReceivePacket(packet) == [packet |-> packet, user |-> 0]

\* The client after ClientSocket::listen has connected: both tasks run, both
\* channels are empty.
Listening ==
    [reader |-> "reading", writer |-> "recv", packet |-> <<>>,
     read_packets |-> <<>>, write_packets |-> <<>>,
     yielded |-> <<>>, submitted |-> <<>>, refused |-> <<>>,
     submits |-> 0]

Connected(stream, closes) ==
    [frames |-> stream.frames, sent |-> stream.sent,
     truncated |-> stream.truncated, closes |-> closes,
     arrived |-> 0, taken |-> 0, eof |-> FALSE, split |-> FALSE,
     written |-> <<>>, flushed |-> 0]

\* The bytes the socket holds for the reader.
Buffered == SubSeq(tcp.sent, tcp.taken + 1, tcp.arrived)

\* The next n bytes of the server's stream arrive in one piece; the piece
\* may end inside the first length prefix (split).
Deliver(n) ==
    /\ n \in 1..(Len(tcp.sent) - tcp.arrived)
    /\ tcp' = [tcp EXCEPT !.arrived = @ + n,
                          !.split = @ \/ (tcp.arrived + n) \in 1..3]
    /\ UNCHANGED <<server_vars, client, codec, framing>>

\* The server closes the stream after its last byte.
Close ==
    /\ tcp.closes /\ ~tcp.eof
    /\ tcp.arrived = Len(tcp.sent)
    /\ tcp' = [tcp EXCEPT !.eof = TRUE]
    /\ UNCHANGED <<server_vars, client, codec, framing>>

\* ReaderIteration with the panic of the unwrap ending the writer task as
\* well, as a panic that aborts the process would.
ReaderIterationAborts ==
    LET it == reader_iteration(Buffered, tcp.eof)
    IN  /\ client.reader = "reading"
        /\ it.result # "Pending"
        /\ tcp' = [tcp EXCEPT !.taken = @ + it.taken]
        /\ client' =
             CASE it.result = "Err" ->
                    [client EXCEPT !.reader = "ended"]
               [] it.result = "Panic" ->
                    [client EXCEPT
                        !.reader = "panicked",
                        !.writer = "ended",
                        !.yielded = Append(@, [declared |-> it.len,
                                               data |-> it.data])]
               [] it.result = "Ok" ->
                    [client EXCEPT
                        !.yielded = Append(@, [declared |-> it.len,
                                               data |-> it.data]),
                        !.read_packets = Append(@, ReceivePacket(it.packet))]
        /\ UNCHANGED <<server_vars, codec, framing>>

\* The reader task: one pass through `while let Ok(len) = read_u32().await`.
ReaderIteration ==
    LET it == reader_iteration(Buffered, tcp.eof)
    IN  /\ client.reader = "reading"
        /\ it.result # "Pending"
        /\ tcp' = [tcp EXCEPT !.taken = @ + it.taken]
        /\ client' =
             CASE it.result = "Err" ->
                    [client EXCEPT !.reader = "ended"]
               [] it.result = "Panic" ->
                    [client EXCEPT
                        !.reader = "panicked",
                        !.yielded = Append(@, [declared |-> it.len,
                                               data |-> it.data])]
               [] it.result = "Ok" ->
                    [client EXCEPT
                        !.yielded = Append(@, [declared |-> it.len,
                                               data |-> it.data]),
                        !.read_packets = Append(@, ReceivePacket(it.packet))]
        /\ UNCHANGED <<server_vars, codec, framing>>

InitReader ==
    /\ NoServer
    /\ codec = NoCodec
    /\ framing = NoFraming
    /\ client = Listening
    /\ tcp \in { Connected(stream, closes) :
                   stream \in Streams, closes \in BOOLEAN }

NextReader ==
    \/ \E n \in 1..Len(tcp.sent) : Deliver(n)
    \/ Close
    \/ ReaderIteration

SpecReader == InitReader /\ [][NextReader]_vars

\* What the client's collaborators submit: a player-move, a pong.
ClientMessages ==
    { PlayerMove(F32(0, 127, 0), F32(0, 128, 0), F32(1, 0, 0)), Pong(1) }

\* A collaborator sends m on write_packets: the channel is unbounded, and
\* it is disconnected once the writer task, which owns the receiver, has
\* ended; send then returns the message in an error.
Submit(m) ==
    /\ client.submits < MaxSubmits
    /\ client' =
         IF client.writer = "ended"
         THEN [client EXCEPT !.submits = @ + 1,
                             !.refused = Append(@, m)]
         ELSE [client EXCEPT !.submits = @ + 1,
                             !.submitted = Append(@, m),
                             !.write_packets = Append(@, m)]
    /\ UNCHANGED <<server_vars, tcp, codec, framing>>

\* recv taking the message sent last.
recv_last(queue) ==
    [packet |-> queue[Len(queue)], rest |-> SubSeq(queue, 1, Len(queue) - 1)]

\* inner_read_packets.recv(): the message sent first.
recv(queue) == [packet |-> Head(queue), rest |-> Tail(queue)]

\* The writer task takes the next message and serializes it; an error of
\* bincode::serialize ends the task.
WriterRecv ==
    /\ client.writer = "recv"
    /\ client.write_packets # <<>>
    /\ \E ok \in BOOLEAN :
          client' = IF ok
                    THEN [client EXCEPT
                            !.write_packets = recv(client.write_packets).rest,
                            !.packet = serialize(recv(client.write_packets).packet),
                            !.writer = "prefix"]
                    ELSE [client EXCEPT
                            !.write_packets = recv(client.write_packets).rest,
                            !.writer = "ended"]
    /\ UNCHANGED <<server_vars, tcp, codec, framing>>

\* WriterPrefix going on to the payload after a failed write of the prefix.
WriterPrefixGoesOn ==
    /\ client.writer = "prefix"
    /\ \E ok \in BOOLEAN :
          IF ok
          THEN /\ tcp' = [tcp EXCEPT !.written =
                            @ \o u32_to_be_bytes(as_u32(usize(Len(client.packet))))]
               /\ client' = [client EXCEPT !.writer = "payload"]
          ELSE /\ tcp' = tcp
               /\ client' = [client EXCEPT !.writer = "payload"]
    /\ UNCHANGED <<server_vars, codec, framing>>

\* write_u32(packet.len() as u32); an error ends the task.
WriterPrefix ==
    /\ client.writer = "prefix"
    /\ \E ok \in BOOLEAN :
          IF ok
          THEN /\ tcp' = [tcp EXCEPT !.written =
                            @ \o u32_to_be_bytes(as_u32(usize(Len(client.packet))))]
               /\ client' = [client EXCEPT !.writer = "payload"]
          ELSE /\ tcp' = tcp
               /\ client' = [client EXCEPT !.writer = "ended"]
    /\ UNCHANGED <<server_vars, codec, framing>>

\* write_all(&packet); an error ends the task, after none or some of the
\* bytes were written.
WriterPayload ==
    /\ client.writer = "payload"
    /\ \E ok \in BOOLEAN, some \in 0..1 :
          IF ok
          THEN /\ tcp' = [tcp EXCEPT !.written = @ \o client.packet]
               /\ client' = [client EXCEPT !.writer = "flush"]
          ELSE /\ tcp' = [tcp EXCEPT !.written =
                                      @ \o SubSeq(client.packet, 1, some)]
               /\ client' = [client EXCEPT !.writer = "ended"]
    /\ UNCHANGED <<server_vars, codec, framing>>

\* flush(); an error ends the task, success takes it back to recv.
WriterFlush ==
    /\ client.writer = "flush"
    /\ \E ok \in BOOLEAN :
          IF ok
          THEN /\ tcp' = [tcp EXCEPT !.flushed = Len(tcp.written)]
               /\ client' = [client EXCEPT !.writer = "recv", !.packet = <<>>]
          ELSE /\ tcp' = tcp
               /\ client' = [client EXCEPT !.writer = "ended"]
    /\ UNCHANGED <<server_vars, codec, framing>>

\* The runs of the writer: the server sends nothing.
InitWriter ==
    /\ NoServer
    /\ codec = NoCodec
    /\ framing = NoFraming
    /\ client = Listening
    /\ tcp = Connected(Whole(<<>>), FALSE)

NextWriter ==
    \/ \E m \in ClientMessages : Submit(m)
    \/ WriterRecv
    \/ WriterPrefix
    \/ WriterPayload
    \/ WriterFlush

SpecWriter == InitWriter /\ [][NextWriter]_vars

\* ------------------------------------------- the client socket as a whole
\* The worker threads of the runtime: Builder::new_multi_thread() without
\* worker_threads starts one per core of the host.
WorkerThreads == {1, 2}

\* The caller before ClientSocket::listen, on a host with the given cores.
Unconnected(cores) ==
    [reader |-> "none", writer |-> "none", packet |-> <<>>,
     read_packets |-> <<>>, write_packets |-> <<>>,
     yielded |-> <<>>, submitted |-> <<>>, refused |-> <<>>,
     submits |-> 0,
     result |-> "none", runtime |-> "none", worker_threads |-> cores,
     entered |-> FALSE]

\* The byte streams of the server in the runs of the whole socket: nothing,
\* or one whole frame.
ClientStreams == { Whole(<<>>), Whole(<<Ping(1)>>) }

\* listen_refused with the two tasks spawned and the socket handed out all
\* the same.
listen_refused_spawns ==
    [client EXCEPT !.result = "ConnectionRefused", !.runtime = "running",
                   !.reader = "reading", !.writer = "recv"]

\* ClientSocket::listen with the connect failing.
listen_refused ==
    [client EXCEPT !.result = "ConnectionRefused", !.runtime = "dropped"]

\* ClientSocket::listen: the runtime is built and the channels are made,
\* then the connect is awaited; when it fails the error is returned, the
\* runtime and the channels being dropped; when it succeeds the stream is
\* split, the two tasks are spawned and the socket is returned.
listen ==
    /\ client.result = "none"
    /\ \E ok \in BOOLEAN :
          IF ok
          THEN /\ client' = [client EXCEPT !.result = "Ok",
                                           !.runtime = "running",
                                           !.reader = "reading",
                                           !.writer = "recv"]
               /\ \E stream \in ClientStreams, closes \in BOOLEAN :
                     tcp' = Connected(stream, closes)
          ELSE /\ client' = listen_refused
               /\ tcp' = tcp
    /\ UNCHANGED <<server_vars, codec, framing>>

\* The writer task is inside inner_read_packets.recv() with nothing to
\* take: crossbeam's recv blocks the thread, so the task does not yield and
\* the worker thread that polled it runs nothing else.
WriterBlocked ==
    /\ client.entered
    /\ client.writer = "recv"
    /\ client.write_packets = <<>>
    /\ client.runtime = "running"

\* A worker thread is free to poll the reader task.
ReaderScheduled == client.worker_threads > 1 \/ ~WriterBlocked

\* A worker thread polls the writer task for the first time.
WriterEnter ==
    /\ client.writer = "recv"
    /\ ~client.entered
    /\ client.runtime = "running"
    /\ client' = [client EXCEPT !.entered = TRUE]
    /\ UNCHANGED <<server_vars, tcp, codec, framing>>

\* The caller sends on write_packets of the socket it holds.
ClientSubmit(m) == client.runtime = "running" /\ Submit(m)

ReaderStep == ReaderScheduled /\ ReaderIteration

WriterStep ==
    /\ client.entered
    /\ (WriterRecv \/ WriterPrefix \/ WriterPayload \/ WriterFlush)

\* ClientSocket::shutdown(self): runtime.shutdown_background(), then the
\* socket, with the caller's ends of the two channels, is dropped.
shutdown ==
    /\ client.runtime = "running"
    /\ client' = [client EXCEPT !.runtime = "shutdown"]
    /\ UNCHANGED <<server_vars, tcp, codec, framing>>

\* recv() on the outbound channel, empty and with its sender dropped,
\* returns an error: the loop of the writer ends.
WriterDisconnected ==
    /\ client.runtime = "shutdown"
    /\ client.entered
    /\ client.writer = "recv"
    /\ client.write_packets = <<>>
    /\ client' = [client EXCEPT !.writer = "ended"]
    /\ UNCHANGED <<server_vars, tcp, codec, framing>>

\* ReaderCancel with the task left waiting: the runtime drops no task.
ReaderKeepsWaiting ==
    /\ client.runtime = "shutdown"
    /\ client.reader = "reading"
    /\ client' = client
    /\ UNCHANGED <<server_vars, tcp, codec, framing>>

\* The runtime that is shut down drops a task that is not being polled: the
\* reader waiting in read_u32().await.
ReaderCancel ==
    /\ client.runtime = "shutdown"
    /\ client.reader = "reading"
    /\ client' = [client EXCEPT !.reader = "cancelled"]
    /\ UNCHANGED <<server_vars, tcp, codec, framing>>

\* The runtime that is shut down drops the writer never polled, or waiting
\* in one of its awaits.
WriterCancel ==
    /\ client.runtime = "shutdown"
    /\ \/ client.writer = "recv" /\ ~client.entered
       \/ client.writer \in {"prefix", "payload", "flush"}
    /\ client' = [client EXCEPT !.writer = "cancelled"]
    /\ UNCHANGED <<server_vars, tcp, codec, framing>>

InitClient ==
    /\ NoServer
    /\ codec = NoCodec
    /\ framing = NoFraming
    /\ client \in { Unconnected(cores) : cores \in WorkerThreads }
    /\ tcp = NoStream

NextClient ==
    \/ listen
    \/ \E n \in {4, 16} : client.result = "Ok" /\ Deliver(n)
    \/ client.result = "Ok" /\ Close
    \/ \E m \in ClientMessages : ClientSubmit(m)
    \/ ReaderStep
    \/ WriterEnter
    \/ WriterStep
    \/ shutdown
    \/ WriterDisconnected
    \/ ReaderCancel
    \/ WriterCancel

SpecClient == InitClient /\ [][NextClient]_vars

\* The worker threads keep polling the tasks that can run, and a runtime
\* that is shut down gets to drop its tasks.
SpecClientFair ==
    /\ SpecClient
    /\ WF_vars(ReaderStep)
    /\ WF_vars(WriterStep)
    /\ WF_vars(WriterDisconnected)
    /\ WF_vars(ReaderCancel)
    /\ WF_vars(WriterCancel)

\* The reactor with peers that answer with pongs of any code.
PongCodes == {1, 2}

NextPongs ==
    \/ Connect("Ok")
    \/ \E t \in Tokens, code \in PongCodes : PeerPongCode(t, code)
    \/ accept_connections
    \/ HandleServerEvent
    \/ HandleTokenEvent
    \/ check_connections

SpecPongs == Init /\ [][NextPongs]_vars

\* The keepalive runs in which, besides, another system may flag the session.
InitKeepaliveFlagged ==
    /\ now = 0
    /\ total_connections = 1
    /\ unauth_clients = [t \in {1} |-> UnauthorizedUser]
    /\ registered = {1}
    /\ backlog = <<>>
    /\ wire = [t \in {1} |-> <<>>]
    /\ packet_events = <<>>
    /\ ping_requests = 0
    /\ connection_events = <<[kind |-> "established", user |-> 1]>>
    /\ poll_events = NoEvents
    /\ pc = "idle"
    /\ panic = "none"
    /\ peer = [t \in {1} |-> NewPeer]
    /\ budget = [connections |-> 0, arrivals |-> 0,
                 ticks |-> KeepaliveTime, flags |-> MaxFlags]
    /\ hist = [assigned |-> <<1>>, removed |-> {}, checked |-> FALSE,
               skipped |-> FALSE]
    /\ client = NoClient
    /\ tcp = NoStream
    /\ codec = NoCodec
    /\ framing = NoFraming

NextKeepaliveFlagged ==
    \/ Tick
    \/ \E t \in Tokens : RequestDisconnect(t)
    \/ accept_connections
    \/ HandleServerEvent
    \/ HandleTokenEvent
    \/ check_connections

SpecKeepaliveFlagged == InitKeepaliveFlagged /\ [][NextKeepaliveFlagged]_vars

TypeOK ==
    /\ now \in 0..KeepaliveTime
    /\ total_connections \in 0..MaxConnections
    /\ registered \subseteq Tokens
    /\ DOMAIN unauth_clients \subseteq Tokens
    /\ pc \in {"idle", "events", "hung"}
    /\ panic \in {"none", "lookup", "read", "ping_write", "pong"}

\* ------------------------------------------------------------------ claims
\* The envelopes of user t in the inbound queue, in queue order.
Delivered(t) ==
    LET of_t == SelectSeq(packet_events, LAMBDA e : e.user = t)
    IN  [i \in 1..Len(of_t) |-> of_t[i].packet]

WellFormed(item) == item.kind = "Frame" /\ decode(item.payload) # MalformedPayload

\* The messages of the well-formed frames among the items of t that
\* read_packet has consumed, in arrival order.
Consumed(t) ==
    LET read == SubSeq(peer[t].arrived, 1, peer[t].read)
        good == SelectSeq(read, WellFormed)
    IN  [i \in 1..Len(good) |-> decode(good[i].payload)]

\* The items pending on a socket make its drain end in a decode failure.
DecodeFails(w) ==
    \E i \in 1..Len(w) :
        /\ w[i].kind = "Frame" /\ decode(w[i].payload) = MalformedPayload
        /\ \A j \in 1..(i - 1) :
              WellFormed(w[j]) \/ w[j].kind \in {"Interrupted", "UnexpectedEof"}

\* C1: a session that was sent its first ping and whose peer never sent a
\* pong is flagged disconnected (or already removed) once 26 counter units
\* have passed since that ping, check_connections having run at every value
\* of the counter.
C1_KeepaliveEviction ==
    \A t \in DOMAIN unauth_clients :
        ( /\ ~hist.skipped /\ hist.checked
          /\ peer[t].first_ping # -1
          /\ ~peer[t].ponged
          /\ now - peer[t].first_ping >=
                 PING_TIME_SECONDS + MAX_PING_TIMEOUT_SECONDS + 1 )
        => unauth_clients[t].disconnected

\* C2: a session whose peer has answered every ping within PongDelay counter
\* units is in the table and not flagged disconnected.
C2_ResponsiveNeverEvicted ==
    \A t \in DOMAIN peer :
        ~peer[t].late =>
            /\ t \in DOMAIN unauth_clients
            /\ ~unauth_clients[t].disconnected

\* C2 witness: the peer has answered its second ping in time, its pong is
\* recorded, and more than a full eviction period has passed since the
\* first ping.
C2_Witness ==
    /\ 1 \in DOMAIN unauth_clients
    /\ ~unauth_clients[1].disconnected
    /\ peer[1].first_ping # -1
    /\ peer[1].last_ping # peer[1].first_ping
    /\ ~peer[1].late /\ peer[1].awaiting = -1
    /\ unauth_clients[1].last_pong = peer[1].last_ping
    /\ now - peer[1].first_ping >
           PING_TIME_SECONDS + MAX_PING_TIMEOUT_SECONDS

\* C3: a pong envelope of a user that is no longer in the session table is
\* ignored by check_connections: the process does not fail on it.
C3_PongOfRemovedIgnored == panic # "pong"

\* C4: a read error or a failed ping write on one connection does not
\* terminate the process.
C4_ConnectionFailureNotFatal == panic \notin {"read", "ping_write"}

\* C5: every session removed from the table has its connection-lost event,
\* with its UserId, among the lifecycle events.
C5_RemovalEmitsConnectionLost ==
    \A t \in hist.removed :
        [kind |-> "lost", user |-> t] \in Range(connection_events)

\* C6: the UserIds assigned, in accept order, are strictly increasing: they
\* are pairwise distinct and none is assigned again, whatever was removed.
C6_UserIdsIncrease ==
    \A i, j \in 1..Len(hist.assigned) :
        i < j => hist.assigned[i] < hist.assigned[j]

\* C6 witness: a connection was accepted after the first session was removed.
C6_Witness ==
    /\ Len(hist.assigned) >= 2
    /\ hist.assigned[1] \in hist.removed
    /\ hist.assigned[2] \in DOMAIN unauth_clients

\* C7: the tokens registered with the poller are the UserIds of the session
\* table.
C7_RegisteredIffInTable == registered = DOMAIN unauth_clients

\* C7 witness: a session has been removed while another one is live.
C7_Witness ==
    /\ pc = "idle"
    /\ hist.removed # {}
    /\ DOMAIN unauth_clients # {}

\* C8: a step in which the socket of connection a is drained and the drain
\* ends in a decode failure keeps the queue it found as a prefix of the new
\* queue, adds envelopes of a only, and leaves every other session in the
\* table, registered and unchanged.
C8_DecodeFailureIsolation ==
    [][ \A a \in DOMAIN unauth_clients :
          ( /\ pc = "events"
            /\ peer'[a].read > peer[a].read
            /\ DecodeFails(wire[a]) )
          => /\ Len(packet_events') >= Len(packet_events)
             /\ SubSeq(packet_events', 1, Len(packet_events)) = packet_events
             /\ \A i \in (Len(packet_events) + 1)..Len(packet_events') :
                   packet_events'[i].user = a
             /\ \A b \in DOMAIN unauth_clients \ {a} :
                   /\ b \in DOMAIN unauth_clients'
                   /\ unauth_clients'[b] = unauth_clients[b]
                   /\ b \in registered'
                   /\ wire'[b] = wire[b] ]_vars

\* C8 witness: a connection was removed on a decode failure while another
\* connection is live with an envelope of its own in the queue.
C8_Witness ==
    \E a \in hist.removed, b \in DOMAIN unauth_clients :
        /\ peer[a].read > 0
        /\ ~WellFormed(peer[a].arrived[peer[a].read])
        /\ peer[a].arrived[peer[a].read].kind = "Frame"
        /\ Delivered(b) # <<>>

\* C9: the envelopes of one connection are in the queue in the order their
\* frames arrived on its socket.
C9_PerConnectionFifo ==
    \A t \in DOMAIN peer : Delivered(t) = Consumed(t)

\* C9 witness: two different messages of one connection have been queued.
C9_Witness ==
    \E t \in DOMAIN peer :
        /\ Len(Delivered(t)) >= 2
        /\ Delivered(t)[1] # Delivered(t)[2]

\* C10: the first connection accepted is UserId 1, and every envelope
\* carries the UserId of an accepted connection and a message whose encoding
\* is a frame read on that connection; a connection has as many envelopes as
\* well-formed frames read.
C10_EndToEnd ==
    /\ hist.assigned # <<>> => hist.assigned[1] = 1
    /\ \A i \in 1..Len(packet_events) :
          LET e == packet_events[i]
          IN  /\ e.user \in Range(hist.assigned)
              /\ \E k \in 1..peer[e.user].read :
                    peer[e.user].arrived[k] = Frame(encode(e.packet))
    /\ \A t \in DOMAIN peer :
          Len(Delivered(t)) =
              Cardinality({ k \in 1..peer[t].read : WellFormed(peer[t].arrived[k]) })

\* C10 witness: the first connection's player-move is in the queue as the
\* one envelope of UserId 1, with the coordinates sent.
C10_Witness ==
    /\ hist.assigned # <<>>
    /\ Len(packet_events) = 1
    /\ packet_events[1] = [packet |-> PlayerMove(1, 2, 3), user |-> 1]

\* No float field of m is a NaN.
NoNaN(m) ==
    \A i \in 1..Len(m.fields) :
        Layout(m.variant)[i] = "f32" => ~IsNaN(m.fields[i])

\* C13 as stated: the message deserialized from the bytes of m is == to m.
C13_RoundTripEq ==
    codec.pc = "decoded" => PartialEq(codec.decoded, codec.m)

\* C13: the message deserialized from the bytes of m has the variant of m
\* and, bit for bit, its fields; it is == to m exactly when no float field
\* of m is a NaN.
C13_RoundTrip ==
    codec.pc = "decoded" =>
        /\ codec.decoded = codec.m
        /\ PartialEq(codec.decoded, codec.m) <=> NoNaN(codec.m)

\* C13 witness: an entity-move with a two-byte entity id, a negative zero,
\* a negative value whose bytes all differ and an infinity went through.
C13_Witness ==
    /\ codec.pc = "decoded"
    /\ codec.m = EntityMoved(258, F32(1, 0, 0), F32(1, 130, 1193046),
                             F32(0, 255, 0))
    /\ Len(codec.bytes) = 24
    /\ codec.decoded = codec.m

\* C15: the length the prefix of a frame declares is the byte count of the
\* payload the frame was built for.
C15_PrefixIsPayloadLength ==
    framing.pc = "read" => as_usize(framing.declared) = framing.len

\* The frames of a stream up to its k-th, as bytes.
Boundary(k) == Len(StreamOf(SubSeq(tcp.frames, 1, k)))

RECURSIVE ReaderRun(_, _, _)
ReaderRun(buf, eof, acc) ==
    LET it == reader_iteration(buf, eof)
        y == [declared |-> it.len, data |-> it.data]
    IN  CASE it.result = "Pending" -> acc
          [] it.result = "Err" -> [acc EXCEPT !.reader = "ended"]
          [] it.result = "Panic" ->
                [acc EXCEPT !.reader = "panicked",
                            !.yielded = Append(@, y)]
          [] it.result = "Ok" ->
                ReaderRun(SubSeq(buf, it.taken + 1, Len(buf)), eof,
                          [acc EXCEPT
                              !.yielded = Append(@, y),
                              !.read_packets = Append(@, ReceivePacket(it.packet))])

WholeRead ==
    ReaderRun(tcp.sent, tcp.closes,
              [reader |-> "reading", yielded |-> <<>>, read_packets |-> <<>>])

IsPrefix(a, b) == Len(a) <= Len(b) /\ a = SubSeq(b, 1, Len(a))

\* Nothing more will arrive and the reader can do nothing more.
Quiescent ==
    /\ tcp.arrived = Len(tcp.sent)
    /\ tcp.eof = tcp.closes
    /\ \/ client.reader # "reading"
       \/ reader_iteration(Buffered, tcp.eof).result = "Pending"

C16_TruncatedFrameClosed ==
    (tcp.truncated /\ tcp.eof /\ client.reader # "reading") =>
        /\ client.reader = "ended"
        /\ \A i \in 1..Len(client.yielded) :
              as_usize(client.yielded[i].declared)
                  = usize(Len(client.yielded[i].data))

\* C12: the bytes written to the socket are the frames of the first n
\* messages submitted, in the order submitted, each a 4-byte prefix and its
\* payload, followed by nothing or by the beginning of the frame of the next
\* message; that next frame is begun only when all frames before it have
\* been flushed, and a frame written whole is the last one only if the
\* frames before it have been flushed.
C12_WriterFifo ==
    \E n \in 0..Len(client.submitted) :
        LET whole == StreamOf(SubSeq(client.submitted, 1, n))
            rest == SubSeq(tcp.written, Len(whole) + 1, Len(tcp.written))
        IN  /\ IsPrefix(whole, tcp.written)
            /\ \/ /\ rest = <<>>
                  /\ n > 0 => tcp.flushed >=
                              Len(StreamOf(SubSeq(client.submitted, 1, n - 1)))
               \/ /\ n < Len(client.submitted)
                  /\ IsPrefix(rest, FrameBytes(client.submitted[n + 1]))
                  /\ Len(rest) < Len(FrameBytes(client.submitted[n + 1]))
                  /\ tcp.flushed = Len(whole)

\* C12 witness: two different messages were submitted and the frame of the
\* first, then the frame of the second, are written and flushed.
C12_Witness ==
    /\ Len(client.submitted) = 2
    /\ client.submitted[1] # client.submitted[2]
    /\ tcp.written = FrameBytes(client.submitted[1])
                        \o FrameBytes(client.submitted[2])
    /\ tcp.flushed = Len(tcp.written)
    /\ client.writer = "recv"

\* C18: no send on the outbound channel has returned an error.
C18_SubmitNeverFails == client.refused = <<>>

\* C17: a step that writes a ping to a session writes the first ping of the
\* session, or a ping after the previous one was answered by its peer, or a
\* ping after the previous one has timed out (the session is flagged, or
\* more than 25 counter units have passed since that ping).
C17_OnePingInFlight ==
    [][ \A t \in DOMAIN peer :
          peer'[t].last_ping # peer[t].last_ping =>
              \/ peer[t].last_ping = -1
              \/ peer[t].awaiting = -1
              \/ unauth_clients[t].disconnected
              \/ now - peer[t].last_ping >
                     PING_TIME_SECONDS + MAX_PING_TIMEOUT_SECONDS ]_vars

\* C20: a run of check_connections that ends normally flags a session that
\* was not flagged exactly when the counter is more than 25 ahead of the
\* last pong recorded for the session.
C20_FlaggedIffPongGapExceeded ==
    [][ (check_connections /\ panic' = "none") =>
          \A t \in DOMAIN unauth_clients :
              ~unauth_clients[t].disconnected =>
                  ( unauth_clients'[t].disconnected
                    <=> now - unauth_clients[t].last_pong >
                            PING_TIME_SECONDS + MAX_PING_TIMEOUT_SECONDS ) ]_vars

\* C19: no poll iteration is caught in its accept loop or in a drain loop.
C19_IterationTerminates == pc # "hung"

\* C21: a step writes a ping to a session only when the counter is more than
\* 15 ahead of the session's last sent ping, and it then records the counter
\* as the last sent ping; the last sent ping changes in no other step; so
\* the ping the peer sees comes more than 15 units after the one before.
C21_PingInterval ==
    [][ \A t \in DOMAIN unauth_clients :
          /\ peer'[t].last_ping # peer[t].last_ping =>
                /\ now - unauth_clients[t].last_ping > PING_TIME_SECONDS
                /\ unauth_clients'[t].last_ping = now
                /\ peer[t].last_ping # -1 =>
                       now - peer[t].last_ping > PING_TIME_SECONDS
          /\ (t \in DOMAIN unauth_clients'
              /\ unauth_clients'[t].last_ping # unauth_clients[t].last_ping) =>
                peer'[t].last_ping = now ]_vars

\* C21 witness: the session has been sent two pings.
C21_Witness ==
    /\ 1 \in DOMAIN unauth_clients
    /\ peer[1].first_ping # -1
    /\ peer[1].last_ping > peer[1].first_ping
    /\ unauth_clients[1].last_ping = peer[1].last_ping

UnreadPongs(t) ==
    { i \in (ping_requests + 1)..Len(packet_events) :
        /\ packet_events[i].user = t
        /\ packet_events[i].packet.variant = "Pong" }

Max(S) == CHOOSE i \in S : \A j \in S : j <= i

\* C23: handling the pongs sets last_pong of each pong's user to its newest
\* pong and nothing else: the ping and the flag of that session are what the
\* ping pass left, a session without a pong keeps its last_pong too, and the
\* table's keys, the registrations and the UserId counter do not change.
C23_PongSetsOnlyLastPong ==
    [][ (check_connections /\ panic' = "none") =>
          /\ DOMAIN unauth_clients' = DOMAIN unauth_clients
          /\ registered' = registered
          /\ total_connections' = total_connections
          /\ \A t \in DOMAIN unauth_clients :
                unauth_clients'[t] =
                    [CheckConnection(unauth_clients[t]) EXCEPT !.last_pong =
                        IF UnreadPongs(t) = {} THEN @
                        ELSE packet_events[Max(UnreadPongs(t))].packet.fields[1]]
      ]_vars

\* A pong of user 2 has been stored while user 1, in the table, has none.
C23_Witness ==
    /\ {1, 2} \subseteq DOMAIN unauth_clients
    /\ unauth_clients[2].last_pong \in PongCodes
    /\ unauth_clients[1].last_pong = 0
    /\ ping_requests = Len(packet_events)

\* C24: the tokens a step registers are the UserIds it stores a session
\* under, one per connection accepted; none is the listening socket's token
\* and none was given to a connection accepted before; and the connection a
\* token event reads is the one whose session is stored under that token.
C24_TokenIsUserId ==
    [][ LET tokens == registered' \ registered
            uids == DOMAIN unauth_clients' \ DOMAIN unauth_clients
        IN  /\ tokens = uids
            /\ Cardinality(tokens) = Len(hist'.assigned) - Len(hist.assigned)
            /\ SERVER \notin tokens
            /\ tokens \cap Range(hist.assigned) = {}
            /\ \A a \in DOMAIN peer :
                  peer'[a].read > peer[a].read =>
                      /\ a \in registered
                      /\ a \in DOMAIN unauth_clients
                      /\ a \in Range(hist.assigned) ]_vars

\* C24 witness: the first session was removed, then a second connection was
\* accepted, and its token's event has been read under its own UserId.
C24_Witness ==
    /\ Len(hist.assigned) = 2
    /\ hist.assigned[1] \in hist.removed
    /\ hist.assigned[2] \in registered
    /\ peer[hist.assigned[2]].read > 0
    /\ Delivered(hist.assigned[2]) # <<>>

\* The read that ends the drain of the pending items w with client_disconnect
\* set: the first item that is a frame which does not decode or a
\* Disconnected condition, every item before it being read without ending
\* the drain; 0 when the drain does not end so.
DisconnectAt(w) ==
    LET stops == { i \in 1..Len(w) :
                     /\ \/ w[i].kind = "Frame" /\ ~WellFormed(w[i])
                        \/ w[i].kind = "Disconnected"
                     /\ \A j \in 1..(i - 1) :
                           \/ WellFormed(w[j])
                           \/ w[j].kind \in {"Interrupted", "UnexpectedEof"} }
    IN  IF stops = {} THEN 0 ELSE CHOOSE i \in stops : \A j \in stops : i <= j

\* C25: a drain of connection a in which read_packet reports a decode failure
\* or Disconnected reads nothing after that result, has queued one envelope
\* for each well-formed frame before it, and in the same step removes the
\* session from the table and deregisters its socket; and no step adds an
\* envelope of a UserId that has been removed.
C25_FailureEndsDrainAndRemoves ==
    [][ /\ \A a \in DOMAIN unauth_clients :
             ( /\ pc = "events"
               /\ peer'[a].read > peer[a].read
               /\ DisconnectAt(wire[a]) > 0 )
             => /\ peer'[a].read = peer[a].read + DisconnectAt(wire[a])
                /\ Len(Delivered(a)') - Len(Delivered(a)) =
                      Cardinality({ j \in 1..(DisconnectAt(wire[a]) - 1) :
                                      WellFormed(wire[a][j]) })
                /\ a \notin DOMAIN unauth_clients'
                /\ a \notin registered'
        /\ \A a \in hist.removed :
             /\ Delivered(a)' = Delivered(a)
             /\ a \notin DOMAIN unauth_clients' ]_vars

\* C25 witness: a connection was removed at a frame that does not decode
\* with a well-formed frame behind it, which was never read nor queued.
C25_Witness ==
    \E a \in hist.removed :
        /\ peer[a].read = 1
        /\ Len(peer[a].arrived) = 2
        /\ peer[a].arrived[1].kind = "Frame"
        /\ ~WellFormed(peer[a].arrived[1])
        /\ WellFormed(peer[a].arrived[2])
        /\ Delivered(a) = <<>>
        /\ pc = "idle"

\* Every read of the pending items w yields a packet or is interrupted: the
\* drain of w ends when read_packet would block.
EndsInWouldBlock(w) ==
    \A i \in 1..Len(w) : WellFormed(w[i]) \/ w[i].kind = "Interrupted"

\* C26: while the events of an iteration are handled, a session whose
\* pending reads are packets and interrupted reads followed by a would-block
\* stays in the table, registered and with its flag as it was; a step that
\* reads from it reads every pending item, the ones behind an interrupted
\* read included, and queues an envelope for every frame.
C26_TransientResultsKeepSession ==
    [][ \A a \in DOMAIN unauth_clients :
          (pc = "events" /\ EndsInWouldBlock(wire[a])) =>
              /\ a \in DOMAIN unauth_clients'
              /\ a \in registered'
              /\ unauth_clients'[a] = unauth_clients[a]
              /\ peer'[a].read > peer[a].read =>
                    /\ peer'[a].read = peer[a].read + Len(wire[a])
                    /\ wire'[a] = <<>>
                    /\ Len(Delivered(a)') - Len(Delivered(a)) =
                          Cardinality({ j \in 1..Len(wire[a]) :
                                          WellFormed(wire[a][j]) }) ]_vars

\* C26 witness: the iteration has ended on a session whose first read was
\* interrupted and whose second read gave the packet now in the queue.
C26_Witness ==
    \E a \in DOMAIN unauth_clients :
        /\ pc = "idle"
        /\ a \in registered
        /\ ~unauth_clients[a].disconnected
        /\ peer[a].read = 2
        /\ peer[a].arrived[1].kind = "Interrupted"
        /\ WellFormed(peer[a].arrived[2])
        /\ Len(Delivered(a)) = 1
        /\ wire[a] = <<>>

\* Among the pending items w a read reports UnexpectedEof, and no read
\* reports a decode failure, Disconnected or another error.
OnlyUnexpectedEof(w) ==
    /\ \E i \in 1..Len(w) : w[i].kind \in {"UnexpectedEof", "EndOfStream"}
    /\ \A i \in 1..Len(w) :
          \/ WellFormed(w[i])
          \/ w[i].kind \in {"Interrupted", "UnexpectedEof", "EndOfStream"}

RemovedFlagged ==
    { t \in hist.removed :
        \/ peer[t].read = 0
        \/ LET last == peer[t].arrived[peer[t].read]
           IN  WellFormed(last) \/ last.kind \in {"Interrupted", "UnexpectedEof"} }

\* C28: accept_connections, before it polls, takes every session flagged
\* disconnected out of the table and out of the poller in one step, and the
\* poll that follows returns no event for it; so while events are handled
\* no session of the table is flagged, and no event is handled for a session
\* removed for its flag: nothing is read from its connection.
C28_FlaggedRemovedBeforePoll ==
    [][ /\ accept_connections =>
              \A t \in DOMAIN unauth_clients :
                  unauth_clients[t].disconnected =>
                      /\ t \notin DOMAIN unauth_clients'
                      /\ t \notin registered'
                      /\ t \notin poll_events'.tokens
        /\ pc = "events" =>
              /\ \A t \in DOMAIN unauth_clients : ~unauth_clients[t].disconnected
              /\ \A t \in RemovedFlagged :
                    /\ t \notin poll_events.tokens
                    /\ peer'[t].read = peer[t].read ]_vars

\* C28 witness: events are being handled after a flagged session, with a
\* packet pending on its socket, was removed; the packet has not been read.
C28_Witness ==
    \E t \in hist.removed :
        /\ pc = "events"
        /\ t \notin DOMAIN unauth_clients
        /\ t \notin registered
        /\ Len(peer[t].arrived) = 1
        /\ WellFormed(peer[t].arrived[1])
        /\ peer[t].read = 0

\* C29: a session leaves the table only in a run of accept_connections that
\* found it flagged disconnected, or in the handling of an event of its own
\* token whose drain ended at a frame that does not decode or at a
\* Disconnected result; every session the step does not remove so is in the
\* table after the step.
C29_RemovalCauses ==
    [][ \A t \in DOMAIN unauth_clients :
          t \notin DOMAIN unauth_clients' =>
              \/ /\ pc = "idle"
                 /\ unauth_clients[t].disconnected
                 /\ peer'[t].read = peer[t].read
              \/ /\ pc = "events"
                 /\ ~unauth_clients[t].disconnected
                 /\ DisconnectAt(wire[t]) > 0
                 /\ peer'[t].read = peer[t].read + DisconnectAt(wire[t]) ]_vars

\* C29 witness: one session was removed for its flag and another at a frame
\* that does not decode.
C29_Witness ==
    \E a, b \in hist.removed :
        /\ a \in RemovedFlagged
        /\ peer[a].read = 0
        /\ peer[b].read = 1
        /\ peer[b].arrived[1].kind = "Frame"
        /\ ~WellFormed(peer[b].arrived[1])
        /\ DOMAIN unauth_clients = {}

\* C30: no step clears the flag of a session that stays in the table; a run
\* of accept_connections leaves no flagged session in the table; and a
\* UserId that has been removed is never a key of the table again: the keys
\* a step adds are UserIds never assigned before.
C30_DisconnectedIsTerminal ==
    [][ /\ \A t \in DOMAIN unauth_clients \cap DOMAIN unauth_clients' :
              unauth_clients[t].disconnected => unauth_clients'[t].disconnected
        /\ accept_connections =>
              \A t \in DOMAIN unauth_clients' : ~unauth_clients'[t].disconnected
        /\ \A t \in hist'.removed : t \notin DOMAIN unauth_clients'
        /\ (DOMAIN unauth_clients' \ DOMAIN unauth_clients)
               \cap (hist.removed \cup Range(hist.assigned)) = {} ]_vars

\* C30 witness: a session was removed for its flag, and the connection
\* accepted after that is in the table under another UserId.
C30_Witness ==
    /\ Len(hist.assigned) = 2
    /\ hist.assigned[1] \in RemovedFlagged
    /\ hist.assigned[2] # hist.assigned[1]
    /\ DOMAIN unauth_clients = {hist.assigned[2]}
    /\ hist.checked

\* The connections of the backlog that the step has taken off it.
Taken ==
    IF Len(backlog') < Len(backlog)
    THEN SubSeq(backlog, 1, Len(backlog) - Len(backlog'))
    ELSE <<>>

\* C31: a step stores one session, consumes one UserId and sends one
\* established event, carrying that UserId, for each connection it accepts
\* with success, the session being stored and its socket registered when
\* the step ends, and nothing for an accept that fails; the events sent so
\* far are one per UserId assigned, in order; and an envelope is queued only
\* for a UserId whose established event was sent in an earlier step.
C31_OneEstablishedEventPerAccept ==
    [][ LET accepted == Len(SelectSeq(Taken, LAMBDA c : c = "Ok"))
            sent == Len(connection_events)
        IN  /\ Len(connection_events') = sent + accepted
            /\ SubSeq(connection_events', 1, sent) = connection_events
            /\ total_connections' = total_connections + accepted
            /\ Cardinality(DOMAIN unauth_clients' \ DOMAIN unauth_clients) = accepted
            /\ Len(hist'.assigned) = Len(hist.assigned) + accepted
            /\ \A i \in (sent + 1)..(sent + accepted) :
                  /\ connection_events'[i] = ConnectionEvent(hist'.assigned[i])
                  /\ hist'.assigned[i] \in DOMAIN unauth_clients'
                  /\ hist'.assigned[i] \in registered'
                  /\ \A j \in 1..Len(packet_events') :
                        packet_events'[j].user # hist'.assigned[i]
            /\ \A i \in (Len(packet_events) + 1)..Len(packet_events') :
                  ConnectionEvent(packet_events'[i].user) \in Range(connection_events)
      ]_vars

\* C31 witness: of two connections the accept of one failed; the other is
\* UserId 1, with its one established event sent and an envelope queued.
C31_Witness ==
    /\ budget.connections = 0
    /\ backlog = <<>>
    /\ total_connections = 1
    /\ DOMAIN unauth_clients = {1}
    /\ connection_events = <<ConnectionEvent(1)>>
    /\ Delivered(1) # <<>>

\* The reader task has left its loop on a read error or on the panic of a
\* decode failure.
ReaderFailed == client.reader \in {"ended", "panicked"}

\* C32: the step in which the reader task fails, on a read error or a decode
\* failure, changes neither the writer task, nor the runtime, nor a channel,
\* nor the bytes written; a reader that has failed stays failed, takes no
\* byte and sends nothing on the inbound channel; and the writer can still
\* take a message that is waiting.
C32_ReaderFailureIsLocal ==
    [][ /\ (client.reader = "reading" /\ ReaderFailed') =>
              /\ client'.writer = client.writer
              /\ client'.runtime = client.runtime
              /\ client'.entered = client.entered
              /\ client'.write_packets = client.write_packets
              /\ client'.read_packets = client.read_packets
              /\ tcp'.written = tcp.written
        /\ ReaderFailed =>
              /\ client'.reader = client.reader
              /\ client'.read_packets = client.read_packets
              /\ tcp'.taken = tcp.taken
              /\ (client.entered /\ client.writer = "recv"
                    /\ client.write_packets # <<>>) => ENABLED WriterStep
      ]_vars

\* C32 witness: the reader has failed on a decode failure, the runtime runs
\* and the writer is writing the frame of a message.
C32_Witness ==
    /\ client.reader = "panicked"
    /\ client.runtime = "running"
    /\ client.writer = "payload"
    /\ client.read_packets = <<>>

\* C33: a step of the writer task in which a stage fails (the message is
\* taken and no packet comes of it; the stage of the prefix is left and
\* nothing was written; the stage of the payload is left and less than the
\* packet was written; the stage of the flush is left and the bytes written
\* are not flushed) ends the task; and once the task has ended no byte is
\* written or flushed and no message is taken off the outbound channel.
C33_WriterFailureEndsTask ==
    [][ /\ ( /\ client.writer = "recv" /\ client'.writer # "recv"
             /\ client'.packet = <<>> ) => client'.writer = "ended"
        /\ ( /\ client.writer = "prefix" /\ client'.writer # "prefix"
             /\ tcp'.written = tcp.written ) => client'.writer = "ended"
        /\ ( /\ client.writer = "payload" /\ client'.writer # "payload"
             /\ Len(tcp'.written) - Len(tcp.written) < Len(client.packet) )
               => client'.writer = "ended"
        /\ ( /\ client.writer = "flush" /\ client'.writer # "flush"
             /\ tcp'.flushed # Len(tcp.written) ) => client'.writer = "ended"
        /\ client.writer = "ended" =>
              /\ client'.writer = "ended"
              /\ tcp' = tcp
              /\ client'.write_packets = client.write_packets ]_vars

\* C33 witness: the task has ended at the payload of the first message, of
\* which the prefix and one byte are written; the second message, enqueued
\* before that, stays on the channel.
C33_Witness ==
    /\ client.writer = "ended"
    /\ Len(tcp.written) = 5
    /\ tcp.flushed = 0
    /\ Len(client.write_packets) = 1

\* C34: while the runtime runs, a reader with bytes to take can take them
\* whatever the writer is doing, and a writer with a message waiting can
\* take it whatever the reader is doing.
C34_TasksIndependent ==
    client.runtime = "running" =>
        /\ ( /\ client.reader = "reading"
             /\ reader_iteration(Buffered, tcp.eof).result # "Pending" )
               => ENABLED ReaderStep
        /\ ( /\ client.writer = "recv" /\ client.entered
             /\ client.write_packets # <<>> )
               => ENABLED WriterStep

\* Neither task of the client runs any more.
TasksStopped ==
    /\ client.reader \in {"ended", "panicked", "cancelled"}
    /\ client.writer \in {"ended", "cancelled"}

\* C35: once shutdown has been called both tasks stop, whatever they were
\* doing; and when both have stopped they stay stopped, nothing is sent on
\* the inbound channel, nothing is taken off the outbound channel and no
\* byte is taken from or written to the stream.
C35_ShutdownStopsBothTasks ==
    /\ (client.runtime = "shutdown") ~> TasksStopped
    /\ [][ (client.runtime = "shutdown" /\ TasksStopped) =>
              /\ TasksStopped'
              /\ client'.read_packets = client.read_packets
              /\ client'.write_packets = client.write_packets
              /\ tcp'.written = tcp.written
              /\ tcp'.taken = tcp.taken ]_vars

\* C35 witness: shutdown was called while the reader waited for bytes and
\* the writer was in the middle of a frame; both tasks have been dropped,
\* and a message is left on the outbound channel.
C35_Witness ==
    /\ client.runtime = "shutdown"
    /\ client.reader = "cancelled"
    /\ client.writer = "cancelled"
    /\ Len(tcp.written) = 4
    /\ client.write_packets # <<>>

\* C36: when listen has returned ConnectionRefused there is no reader task,
\* no writer task, no runtime and no stream, and nothing was or can be sent
\* or received on a channel of the socket.
C36_RefusedConnectCreatesNothing ==
    client.result = "ConnectionRefused" =>
        /\ client.reader = "none"
        /\ client.writer = "none"
        /\ client.runtime = "dropped"
        /\ ~client.entered
        /\ client.submits = 0
        /\ client.read_packets = <<>>
        /\ client.write_packets = <<>>
        /\ tcp = NoStream
        /\ ~ENABLED NextClient

\* C36 witness: listen has returned ConnectionRefused.
C36_Witness ==
    /\ client.result = "ConnectionRefused"
    /\ client.runtime = "dropped"

\* C37: the lookup of the session of an event's token, get_mut(&id).unwrap()
\* at the head of the token arm, never fails.
C37_LookupNeverFails == panic # "lookup"

\* The envelopes of the well-formed frames of w that lie before the read
\* which ends the drain in a disconnection, in order, for user a.
EnvelopesBeforeFailure(w, a) ==
    LET good == SelectSeq(SubSeq(w, 1, DisconnectAt(w) - 1), WellFormed)
    IN  [i \in 1..Len(good) |-> [packet |-> decode(good[i].payload), user |-> a]]

\* C38: a drain of connection a that ends in a decode failure or a
\* Disconnected result appends to the queue the envelopes of the well-formed
\* frames read before that result, in the order of the frames, in the step
\* that removes the session of a; and no step takes an envelope out of the
\* queue or changes one.
C38_EnvelopesSurviveRemoval ==
    [][ /\ \A a \in DOMAIN unauth_clients :
             ( /\ pc = "events"
               /\ peer'[a].read > peer[a].read
               /\ DisconnectAt(wire[a]) > 0 )
             => /\ packet_events' =
                      packet_events \o EnvelopesBeforeFailure(wire[a], a)
                /\ a \notin DOMAIN unauth_clients'
        /\ Len(packet_events') >= Len(packet_events)
        /\ SubSeq(packet_events', 1, Len(packet_events)) = packet_events ]_vars

\* C38 witness: the iteration has ended with, in the queue, the envelope of
\* a player-move whose connection sent a frame that does not decode right
\* behind it; its UserId is not in the table any more.
C38_Witness ==
    \E a \in hist.removed :
        /\ pc = "idle"
        /\ a \notin DOMAIN unauth_clients
        /\ peer[a].read = 2
        /\ WellFormed(peer[a].arrived[1])
        /\ peer[a].arrived[2].kind = "Frame"
        /\ ~WellFormed(peer[a].arrived[2])
        /\ packet_events =
              <<[packet |-> decode(peer[a].arrived[1].payload), user |-> a]>>
        /\ ping_requests = 0

====
